---- MODULE Spec2Model ----
(***************************************************************************)
(* Model of mapnik's image_cast (src/src/image_cast.cpp): conversion of a  *)
(* raster buffer from one pixel format to another, with boost's            *)
(* numeric_cast and the catch blocks that turn its overflow exceptions     *)
(* into numeric_limits<dst_type>::min() / max().                           *)
(*                                                                         *)
(* Numbers.  Every pixel value, offset and scaling is a Num: a record      *)
(*   [t, s, hi, lo]                                                        *)
(* t = "fin"   : the finite value  s * (hi * B + lo) / Q   (sign and       *)
(*               magnitude, two limbs, Q = 2^FracBits fixed point)         *)
(* t = "inf"   : s * infinity                                              *)
(* t = "nan"   : a NaN                                                     *)
(* t = "fltmax": s * FLT_MAX, t = "fltmin": FLT_MIN (2^-126); these two    *)
(*               occur only as numeric_limits<float> values.               *)
(* double arithmetic is the exact result rounded to 53 significant bits    *)
(* (round to nearest, ties to even); a conversion to float rounds to 24.   *)
(* Every finite value the model computes is a multiple of 1/Q below        *)
(* B*B/Q, so none of them reaches FLT_MAX or falls below FLT_MIN: a float  *)
(* destination overflows only through an infinite quotient.                *)
(* -0.0 is identified with 0.0 (no operation of the code tells them apart  *)
(* except a division by -0.0, and the zero divisor modelled is +0.0).      *)
(***************************************************************************)
EXTENDS Integers, Sequences, FiniteSets, TLC

\* ------------------------------------------------------------------ bounds
MaxW == 2
MaxH == 1

\* ------------------------------------------------------ number representation
FracBits == 3
LimbBits == 28
Q == 2 ^ FracBits
B == 2 ^ LimbBits

\* the number of bits of x, 0 <= x < 2^30
Bits(x) == Cardinality({k \in 0..29 : 2 ^ k <= x})

MkFin(s, hi, lo) == [t |-> "fin", s |-> IF hi = 0 /\ lo = 0 THEN 1 ELSE s, hi |-> hi, lo |-> lo]
NaN == [t |-> "nan", s |-> 1, hi |-> 0, lo |-> 0]
Inf(s) == [t |-> "inf", s |-> s, hi |-> 0, lo |-> 0]
Zero == MkFin(1, 0, 0)
\* an integer literal of magnitude below 2^(LimbBits - FracBits)
FromInt(i) == IF i >= 0 THEN MkFin(1, 0, i * Q) ELSE MkFin(-1, 0, (0 - i) * Q)
\* i / 2, for literals such as 0.5 and 1.5
Halves(i) == IF i >= 0 THEN MkFin(1, 0, i * (Q \div 2)) ELSE MkFin(-1, 0, (0 - i) * (Q \div 2))
\* 2^k
Pow2(k) == IF k + FracBits >= LimbBits
           THEN MkFin(1, 2 ^ (k + FracBits - LimbBits), 0)
           ELSE MkFin(1, 0, 2 ^ (k + FracBits))

IsZero(a) == a.t = "fin" /\ a.hi = 0 /\ a.lo = 0
Neg(a) == IF a.t = "nan" \/ IsZero(a) THEN a ELSE [a EXCEPT !.s = 0 - a.s]

\* magnitudes are pairs <<hi, lo>>
MagLt(ah, al, bh, bl) == ah < bh \/ (ah = bh /\ al < bl)
MagAdd(ah, al, bh, bl) == <<ah + bh + ((al + bl) \div B), (al + bl) % B>>
\* a >= b
MagSub(ah, al, bh, bl) == IF al >= bl THEN <<ah - bh, al - bl>>
                          ELSE <<ah - bh - 1, al + B - bl>>
MagBits(hi, lo) == IF hi > 0 THEN LimbBits + Bits(hi) ELSE Bits(lo)

\* round the magnitude <<hi, lo>> to a multiple of m = 2^k, k <= LimbBits:
\* nearest, ties to the even multiple
MagRoundLow(hi, lo, m) ==
    LET r == lo % m
        par == ((hi % 2) * ((B \div m) % 2) + (lo \div m)) % 2
    IN IF 2 * r > m \/ (2 * r = m /\ par = 1)
       THEN <<hi + ((lo - r + m) \div B), (lo - r + m) % B>>
       ELSE <<hi, lo - r>>
\* the same for a multiple of m * B
MagRoundHigh(hi, lo, m) ==
    LET r == hi % m
        par == (hi \div m) % 2
    IN IF 2 * r > m \/ (2 * r = m /\ (lo > 0 \/ par = 1))
       THEN <<hi - r + m, 0>>
       ELSE <<hi - r, 0>>
\* drop the k low bits of the magnitude <<hi, lo>>, rounding
MagRoundBits(hi, lo, k) ==
    IF k <= 0 THEN <<hi, lo>>
    ELSE IF k <= LimbBits THEN MagRoundLow(hi, lo, 2 ^ k)
    ELSE MagRoundHigh(hi, lo, 2 ^ (k - LimbBits))
\* round the magnitude <<hi, lo>> to p significant bits
MagRound(hi, lo, p) ==
    IF hi = 0 /\ (p >= LimbBits \/ lo < 2 ^ p) THEN <<hi, lo>>
    ELSE MagRoundBits(hi, lo, MagBits(hi, lo) - p)

FinOf(s, m) == MkFin(s, m[1], m[2])
RoundTo(a, p) == IF a.t # "fin" THEN a ELSE FinOf(a.s, MagRound(a.hi, a.lo, p))
DoubleBits == 53
FloatBits == 24
RoundDouble(a) == RoundTo(a, DoubleBits)
RoundFloat(a) == RoundTo(a, FloatBits)

\* ------------------------------------------------------------ double arithmetic
\* the exact sum, and the sum of IEEE arithmetic for infinities and NaN
AddExact(a, b) ==
    IF a.t = "nan" \/ b.t = "nan" THEN NaN
    ELSE IF a.t = "inf" /\ b.t = "inf" THEN (IF a.s = b.s THEN a ELSE NaN)
    ELSE IF a.t = "inf" THEN a
    ELSE IF b.t = "inf" THEN b
    ELSE IF a.s = b.s THEN FinOf(a.s, MagAdd(a.hi, a.lo, b.hi, b.lo))
    ELSE IF MagLt(a.hi, a.lo, b.hi, b.lo) THEN FinOf(b.s, MagSub(b.hi, b.lo, a.hi, a.lo))
    ELSE FinOf(a.s, MagSub(a.hi, a.lo, b.hi, b.lo))

\* a + b and a - b in double
Add(a, b) == RoundDouble(AddExact(a, b))
Sub(a, b) == RoundDouble(AddExact(a, Neg(b)))

\* a * 2^k for a finite a: exact in binary floating point
Shift(a, k) ==
    IF k >= 0
    THEN LET cut == 2 ^ (LimbBits - k)
         IN MkFin(a.s, a.hi * 2 ^ k + (a.lo \div cut), (a.lo % cut) * 2 ^ k)
    ELSE LET d == 2 ^ (0 - k)
         IN MkFin(a.s, a.hi \div d, (a.hi % d) * 2 ^ (LimbBits + k) + (a.lo \div d))

\* the exponent k of a finite non-zero b = +-2^k, -FracBits <= k < LimbBits - FracBits
IsPow2(b) == b.t = "fin" /\ b.hi = 0 /\ b.lo > 0 /\ 2 ^ (Bits(b.lo) - 1) = b.lo
ExpOf(b) == Bits(b.lo) - 1 - FracBits

\* products and quotients of finite non-zero values are modelled when one
\* operand is a power of two (every scaling the model enumerates is one)
MulFin(a, b) ==
    CASE IsPow2(b) -> Shift([a EXCEPT !.s = a.s * b.s], ExpOf(b))
      [] IsPow2(a) -> Shift([b EXCEPT !.s = a.s * b.s], ExpOf(a))
Mul(a, b) ==
    IF a.t = "nan" \/ b.t = "nan" THEN NaN
    ELSE IF (a.t = "inf" /\ IsZero(b)) \/ (IsZero(a) /\ b.t = "inf") THEN NaN
    ELSE IF a.t = "inf" \/ b.t = "inf" THEN Inf(a.s * b.s)
    ELSE IF IsZero(a) \/ IsZero(b) THEN Zero
    ELSE MulFin(a, b)

DivFin(a, b) ==
    CASE IsPow2(b) -> Shift([a EXCEPT !.s = a.s * b.s], 0 - ExpOf(b))
Div(a, b) ==
    IF a.t = "nan" \/ b.t = "nan" THEN NaN
    ELSE IF a.t = "inf" /\ b.t = "inf" THEN NaN
    ELSE IF a.t = "inf" THEN Inf(a.s * b.s)
    ELSE IF b.t = "inf" THEN Zero
    ELSE IF IsZero(b) THEN (IF IsZero(a) THEN NaN ELSE Inf(a.s))
    ELSE IF IsZero(a) THEN Zero
    ELSE DivFin(a, b)

\* ------------------------------------------------------------------ order
\* rank of the class of a value; finite values of one sign are compared by magnitude
\* -inf < -FLT_MAX < finite negatives < 0 < FLT_MIN < finite positives < FLT_MAX < inf
\* (a finite value of the model is a multiple of 1/Q below B*B/Q)
Rank(a) == CASE a.t = "inf" -> 4 * a.s
             [] a.t = "fltmax" -> 3 * a.s
             [] a.t = "fltmin" -> 1
             [] a.t = "fin" -> IF IsZero(a) THEN 0 ELSE 2 * a.s
\* a < b; false when either is a NaN
Lt(a, b) ==
    IF a.t = "nan" \/ b.t = "nan" THEN FALSE
    ELSE IF Rank(a) # Rank(b) THEN Rank(a) < Rank(b)
    ELSE IF a.t = "fin" /\ b.t = "fin" /\ ~IsZero(a)
         THEN IF a.s = 1 THEN MagLt(a.hi, a.lo, b.hi, b.lo) ELSE MagLt(b.hi, b.lo, a.hi, a.lo)
    ELSE FALSE
Le(a, b) == a.t # "nan" /\ b.t # "nan" /\ (Lt(a, b) \/ a = b)

\* truncation toward zero of a finite value
Trunc(a) == MkFin(a.s, a.hi, a.lo - (a.lo % Q))

\* ------------------------------------------------------------ pixel formats
\* the concrete image types of the overloads and of the switch
Kinds == {"rgba8", "gray8", "gray16", "gray32f"}
\* image_dtype values: the four cases, image_dtype_null, and a value no case matches
DTypes == Kinds \cup {"null", "other"}

\* T::pixel_type
pixel_type(k) == CASE k = "rgba8" -> "u32"
                   [] k = "gray8" -> "u8"
                   [] k = "gray16" -> "u16"
                   [] k = "gray32f" -> "f32"
IntTypes == {"u8", "u16", "u32"}
Width(t) == CASE t = "u8" -> 8 [] t = "u16" -> 16 [] t = "u32" -> 32
FltMax(s) == [t |-> "fltmax", s |-> s, hi |-> 0, lo |-> 0]
FltMin == [t |-> "fltmin", s |-> 1, hi |-> 0, lo |-> 0]
One == FromInt(1)

\* 2^w - 1 for w = 8, 16, 32
UIntMax(w) == IF w + FracBits > LimbBits
              THEN MkFin(1, 2 ^ (w + FracBits - LimbBits) - 1, B - Q)
              ELSE MkFin(1, 0, (2 ^ w - 1) * Q)
\* std::numeric_limits<dst_type>::max()
numeric_limits_max(t) == IF t = "f32" THEN FltMax(1) ELSE UIntMax(Width(t))
\* std::numeric_limits<dst_type>::min(): for float the smallest positive
\* normalized value, not the lowest one
numeric_limits_min(t) == IF t = "f32" THEN FltMin ELSE Zero
\* boost::numeric::bounds<T>::lowest() / highest(), used by the range checks
bounds_lowest(t) == IF t = "f32" THEN FltMax(0 - 1) ELSE Zero
bounds_highest(t) == numeric_limits_max(t)

\* the bounds of the float-to-integer range check (rounder Trunc):
\*   s <= S(bounds<T>::lowest()) - S(1.0)   is negative overflow,
\*   s >= S(bounds<T>::highest()) + S(1.0)  is positive overflow.
\* For the unsigned T here lowest() - 1 is -1; highest() + 1 is 2^w in double,
\* and in float too (float(2^32 - 1) is 2^32, and 2^32 + 1.0f rounds to 2^32).
prev_lowest(T) == FromInt(0 - 1)
succ_highest(T) == Pow2(Width(T))

\* boost::numeric_cast<T>(v), v of type S: the range check and the conversion.
\* r = "ok" with the converted value, "neg"/"pos" for the overflow thrown,
\* "ub" when the static_cast executed has undefined behaviour (NaN to integer)
numeric_cast(T, S, v) ==
    CASE T = "f64" -> [r |-> "ok", v |-> v]
      [] T = "f32" /\ S \in IntTypes -> [r |-> "ok", v |-> RoundFloat(v)]
      [] T = "f32" /\ S = "f64" ->
            IF Lt(v, bounds_lowest(T)) THEN [r |-> "neg", v |-> v]
            ELSE IF Lt(bounds_highest(T), v) THEN [r |-> "pos", v |-> v]
            ELSE [r |-> "ok", v |-> RoundFloat(v)]
      [] T \in IntTypes /\ S \in IntTypes ->
            IF Width(S) > Width(T) /\ Lt(bounds_highest(T), v)
            THEN [r |-> "pos", v |-> v] ELSE [r |-> "ok", v |-> v]
      [] T \in IntTypes /\ S \in {"f32", "f64"} ->
            IF Le(v, prev_lowest(T)) THEN [r |-> "neg", v |-> v]
            ELSE IF Le(succ_highest(T), v) THEN [r |-> "pos", v |-> v]
            ELSE IF v.t = "nan" THEN [r |-> "ub", v |-> v]
            ELSE [r |-> "ok", v |-> Trunc(v)]

\* try { dst(x,y) = numeric_cast<dst_type>(v); } catch (negative_overflow&)
\* { ... min(); } catch (positive_overflow&) { ... max(); }
\* ub[i] is the value an undefined conversion leaves in pixel i
handle_cast(T, c, ub, i) ==
    CASE c.r = "ok" -> c.v
      [] c.r = "neg" -> numeric_limits_min(T)
      [] c.r = "pos" -> numeric_limits_max(T)
      [] c.r = "ub" -> ub[i]
cast_or_limit(T, S, v, ub, i) == handle_cast(T, numeric_cast(T, S, v), ub, i)

\* ------------------------------------------------------------------ images
Uninit == [t |-> "uninit", s |-> 1, hi |-> 0, lo |-> 0]
NoError == "none"
NullImageError == "Can not cast a null image"
UnknownTypeError == "Unknown image type passed"

\* image_null: no pixels; offset 0.0 and scaling 1.0 are what its accessors report
image_null(b) == [kind |-> "null", width |-> 0, height |-> 0, pixels |-> <<>>,
                  offset |-> Zero, scaling |-> One, buf |-> b]
NoImage == image_null(0)

\* T0 dst(width, height, false): storage of its own, contents not initialized,
\* offset 0.0 and scaling 1.0
image_new(k, w, h, b) == [kind |-> k, width |-> w, height |-> h,
                          pixels |-> [i \in 1..(w * h) |-> Uninit],
                          offset |-> Zero, scaling |-> One, buf |-> b]
\* T0(src): a copy of dimensions, pixels and metadata in storage of its own
image_copy(src, b) == [src EXCEPT !.buf = b]
set_scaling(img, v) == [img EXCEPT !.scaling = v]
set_offset(img, v) == [img EXCEPT !.offset = v]
\* src(x,y) and dst(x,y) = v
PixelIndex(img, x, y) == y * img.width + x + 1
get_pixel(img, x, y) == img.pixels[PixelIndex(img, x, y)]
set_pixel(img, x, y, v) == [img EXCEPT !.pixels[PixelIndex(img, x, y)] = v]

\* storage allocated by a call: an id no live buffer has
fresh_buf(src) == src.buf + 1

\* ------------------------------------------------------------ the visitors
\* line 66: the value stored at (x,y) by the plain visitor
plain_value(T0, src, x, y, ub) ==
    cast_or_limit(pixel_type(T0), pixel_type(src.kind), get_pixel(src, x, y),
                  ub, PixelIndex(src, x, y))

\* dst_val with the re-quantization multiplying by the target scaling
dst_val_multiplied(src, x, y, offset_, scaling_) ==
    LET scaled_src_val == Add(Mul(numeric_cast("f64", pixel_type(src.kind), get_pixel(src, x, y)).v,
                                  src.scaling), src.offset)
    IN Mul(Sub(scaled_src_val, offset_), scaling_)

\* lines 112-113: dst_val
dst_val(src, x, y, offset_, scaling_) ==
    LET scaled_src_val == Add(Mul(numeric_cast("f64", pixel_type(src.kind), get_pixel(src, x, y)).v,
                                  src.scaling), src.offset)
    IN Div(Sub(scaled_src_val, offset_), scaling_)

\* lines 112-125: the value stored at (x,y) by the rescaling visitor
so_value(T0, src, x, y, offset_, scaling_, ub) ==
    cast_or_limit(pixel_type(T0), "f64", dst_val(src, x, y, offset_, scaling_),
                  ub, PixelIndex(src, x, y))

\* the pixel positions the loops "for y < height, for x < width" visit,
\* starting from row y0
Visited(dst, y0) == {<<x, y>> \in (0..(dst.width - 1)) \X (y0..(dst.height - 1)) : TRUE}

\* the position of pixel i in the visit, when it is visited
Position(dst, y0, i) == CHOOSE c \in Visited(dst, y0) : PixelIndex(dst, c[1], c[2]) = i
IsVisited(dst, y0, i) == \E c \in Visited(dst, y0) : PixelIndex(dst, c[1], c[2]) = i

plain_at(dst, src, xy, ub) == plain_value(dst.kind, src, xy[1], xy[2], ub)
\* the loops of lines 60-77, from row y0: every visited (x,y) is assigned
plain_rows(dst, src, y0, ub) ==
    [dst EXCEPT !.pixels =
        [i \in DOMAIN dst.pixels |->
            IF IsVisited(dst, y0, i) THEN plain_at(dst, src, Position(dst, y0, i), ub)
            ELSE dst.pixels[i]]]

so_at(dst, src, xy, offset_, scaling_, ub) ==
    so_value(dst.kind, src, xy[1], xy[2], offset_, scaling_, ub)
\* the loops of lines 108-127, from row y0
so_rows(dst, src, y0, offset_, scaling_, ub) ==
    [dst EXCEPT !.pixels =
        [i \in DOMAIN dst.pixels |->
            IF IsVisited(dst, y0, i)
            THEN so_at(dst, src, Position(dst, y0, i), offset_, scaling_, ub)
            ELSE dst.pixels[i]]]

Thrown(e, v) == [err |-> e, img |-> NoImage, visitor |-> v]
Returned(img, v) == [err |-> NoError, img |-> img, visitor |-> v]

\* visitor_image_cast<T0>::operator()(T1 const&), lines 56-79
visitor_image_cast_T1(T0, src, ub) ==
    plain_rows(image_new(T0, src.width, src.height, fresh_buf(src)), src, 0, ub)

\* visitor_image_cast handing back the source itself for a same-kind source
visitor_image_cast_aliasing(T0, src, ub) ==
    IF src.kind = "null" THEN Thrown(NullImageError, "plain")
    ELSE IF src.kind = T0 THEN Returned(src, "plain")
    ELSE Returned(visitor_image_cast_T1(T0, src, ub), "plain")

\* visitor_image_cast<T0>: the overload chosen by the source's type
visitor_image_cast(T0, src, ub) ==
    IF src.kind = "null" THEN Thrown(NullImageError, "plain")
    ELSE IF src.kind = T0 THEN Returned(image_copy(src, fresh_buf(src)), "plain")
    ELSE Returned(visitor_image_cast_T1(T0, src, ub), "plain")

\* operator()(T1 const&) with the row loop starting at the second row
visitor_image_cast_so_T1_skipping(T0, src, offset_, scaling_, ub) ==
    LET dst == set_offset(set_scaling(image_new(T0, src.width, src.height, fresh_buf(src)),
                                      scaling_), offset_)
    IN so_rows(dst, src, 1, offset_, scaling_, ub)

\* operator()(T1 const&) giving dst the source's offset and scaling
visitor_image_cast_so_T1_carrying(T0, src, offset_, scaling_, ub) ==
    LET dst == set_offset(set_scaling(image_new(T0, src.width, src.height, fresh_buf(src)),
                                      src.scaling), src.offset)
    IN so_rows(dst, src, 0, offset_, scaling_, ub)

\* visitor_image_cast_so<T0>::operator()(T1 const&), lines 100-129
visitor_image_cast_so_T1(T0, src, offset_, scaling_, ub) ==
    LET dst == set_offset(set_scaling(image_new(T0, src.width, src.height, fresh_buf(src)),
                                      scaling_), offset_)
    IN so_rows(dst, src, 0, offset_, scaling_, ub)

\* visitor_image_cast_so returning an empty image for a null source
visitor_image_cast_so_nullok(T0, src, offset_, scaling_, ub) ==
    IF src.kind = "null" THEN Returned(image_new(T0, 0, 0, fresh_buf(src)), "so")
    ELSE IF src.kind = T0 THEN Returned(image_copy(src, fresh_buf(src)), "so")
    ELSE Returned(visitor_image_cast_so_T1(T0, src, offset_, scaling_, ub), "so")

\* visitor_image_cast_so applying the requested offset and scaling to a same-kind copy
visitor_image_cast_so_retagging(T0, src, offset_, scaling_, ub) ==
    IF src.kind = "null" THEN Thrown(NullImageError, "so")
    ELSE IF src.kind = T0
    THEN Returned(set_offset(set_scaling(image_copy(src, fresh_buf(src)), scaling_), offset_), "so")
    ELSE Returned(visitor_image_cast_so_T1(T0, src, offset_, scaling_, ub), "so")

\* visitor_image_cast_so<T0>: the overload chosen by the source's type
visitor_image_cast_so(T0, src, offset_, scaling_, ub) ==
    IF src.kind = "null" THEN Thrown(NullImageError, "so")
    ELSE IF src.kind = T0 THEN Returned(image_copy(src, fresh_buf(src)), "so")
    ELSE Returned(visitor_image_cast_so_T1(T0, src, offset_, scaling_, ub), "so")

\* ------------------------------------------------------------ image_cast
\* image_cast<T>(image_any const&, double, double), lines 137-148
image_cast_T(T, data, offset, scaling, ub) ==
    IF offset = Zero /\ scaling = One /\ data.offset = Zero /\ data.scaling = One
    THEN visitor_image_cast(T, data, ub)
    ELSE visitor_image_cast_so(T, data, offset, scaling, ub)

\* the concrete overloads with a guard that does not look at the source's scaling
image_cast_concrete_unguarded(T, data, offset, scaling, ub) ==
    IF offset = Zero /\ scaling = One /\ data.offset = Zero
    THEN visitor_image_cast(T, data, ub)
    ELSE visitor_image_cast_so(T, data, offset, scaling, ub)

\* image_cast<T>(image_rgba8 / gray8 / gray16 / gray32f const&, double, double),
\* lines 150-208: the four overloads have one body
image_cast_concrete(T, data, offset, scaling, ub) ==
    IF offset = Zero /\ scaling = One /\ data.offset = Zero /\ data.scaling = One
    THEN visitor_image_cast(T, data, ub)
    ELSE visitor_image_cast_so(T, data, offset, scaling, ub)

\* image_cast(image_any const&, image_dtype, double, double), lines 210-226
image_cast_any(data, type, offset, scaling, ub) ==
    CASE type \in Kinds -> image_cast_T(type, data, offset, scaling, ub)
      [] type = "null" -> Thrown(NullImageError, "none")
      [] OTHER -> Thrown(UnknownTypeError, "none")


\* ------------------------------------------------------------ the inputs
\* raw pixel values of the source images, per element type: the ends of each
\* destination range, values just past them, fractions, a value that is not a
\* float (2^24 + 1), and a NaN
PixelValues(t) ==
    CASE t = "u8" -> <<Zero, FromInt(100), FromInt(255)>>
      [] t = "u16" -> <<Zero, FromInt(100), FromInt(256), FromInt(65535)>>
      [] t = "u32" -> <<Zero, FromInt(255), Pow2(16), Add(Pow2(24), One), Sub(Pow2(32), One)>>
      [] t = "f32" -> <<FromInt(0 - 1), Halves(0 - 1), Halves(3), FromInt(300), Pow2(32), NaN>>

\* (offset, scaling) of a source buffer, and of a request
Meta(o, sc) == [offset |-> o, scaling |-> sc]
SrcMeta == {Meta(Zero, One), Meta(Zero, FromInt(2)), Meta(FromInt(10), Halves(1)),
            Meta(Pow2(DoubleBits), One)}
ReqMeta == {Meta(Zero, One), Meta(FromInt(10), Halves(1)),
            Meta(Pow2(DoubleBits), One), Meta(FromInt(10), Zero)}

\* the source images: every size up to MaxW x MaxH, the pixels running through
\* PixelValues from any starting point
SourceImages(k) ==
    LET vals == PixelValues(pixel_type(k)) IN
    { [kind |-> k, width |-> w, height |-> h,
       pixels |-> [i \in 1..(w * h) |-> vals[((st + i - 2) % Len(vals)) + 1]],
       offset |-> m.offset, scaling |-> m.scaling, buf |-> 1] :
         w \in 0..MaxW, h \in 0..MaxH, st \in 1..Len(vals), m \in SrcMeta }
Sources == {image_null(1)} \cup UNION {SourceImages(k) : k \in Kinds}

\* what a conversion with undefined behaviour may leave in a pixel of type t
UBValues(t) == {Zero, numeric_limits_max(t)}
\* the pixels whose conversion to kind type is undefined on either path
UBPixels(type, src, offset, scaling) ==
    IF type \in Kinds /\ src.kind \in Kinds /\ src.kind # type
    THEN { i \in 1..Len(src.pixels) :
             LET x == (i - 1) % src.width
                 y == (i - 1) \div src.width
             IN \/ numeric_cast(pixel_type(type), pixel_type(src.kind), src.pixels[i]).r = "ub"
                \/ numeric_cast(pixel_type(type), "f64", dst_val(src, x, y, offset, scaling)).r = "ub" }
    ELSE {}
\* the outcomes of the undefined conversions of one call, per pixel
UBChoices(type, src, offset, scaling) ==
    [UBPixels(type, src, offset, scaling) -> UBValues(IF type \in Kinds THEN pixel_type(type) ELSE "u8")]

\* ------------------------------------------------------------------ state
VARIABLES data, args, ret, err, visitor
vars == <<data, args, ret, err, visitor>>

Call(entry, type, m) == [entry |-> entry, type |-> type, offset |-> m.offset, scaling |-> m.scaling]
NoCall == Call("none", "null", Meta(Zero, One))

Init ==
    /\ data \in Sources
    /\ args = NoCall
    /\ ret = NoImage
    /\ err = NoError
    /\ visitor = "none"

Outcome(entry, type, m, r) ==
    /\ args' = Call(entry, type, m)
    /\ ret' = r.img
    /\ err' = r.err
    /\ visitor' = r.visitor
    /\ UNCHANGED data

\* Each behaviour is one call on one source: the three entry points are the
\* calls a caller can make while no call has been made yet.

\* a call of image_cast(data, type, offset, scaling)
CastAny ==
    /\ args = NoCall
    /\ \E type \in DTypes, m \in ReqMeta :
          \E ub \in UBChoices(type, data, m.offset, m.scaling) :
            Outcome("any", type, m, image_cast_any(data, type, m.offset, m.scaling, ub))

\* a call of image_cast<T>(data, offset, scaling), data an image_any
CastT ==
    /\ args = NoCall
    /\ \E T \in Kinds, m \in ReqMeta :
        \E ub \in UBChoices(T, data, m.offset, m.scaling) :
            Outcome("T", T, m, image_cast_T(T, data, m.offset, m.scaling, ub))

\* a call of image_cast<T>(data, offset, scaling), data a concrete image
CastConcrete ==
    /\ args = NoCall
    /\ data.kind # "null"
    /\ \E T \in Kinds, m \in ReqMeta :
        \E ub \in UBChoices(T, data, m.offset, m.scaling) :
            Outcome("concrete", T, m, image_cast_concrete(T, data, m.offset, m.scaling, ub))

Next == CastAny \/ CastT \/ CastConcrete

Spec == Init /\ [][Next]_vars

\* ------------------------------------------------------------------ claims
Called == args.entry # "none"
Succeeded == Called /\ err = NoError
\* a successful conversion between two different kinds
CrossKind == Succeeded /\ data.kind # "null" /\ args.type \in Kinds /\ args.type # data.kind
Pixels(img) == 1..(img.width * img.height)
IdentityMeta(o, sc) == o = FromInt(0) /\ sc = FromInt(1)

\* the range of an element type: its lowest and its highest representable value
TrueLowest(t) == IF t = "f32" THEN FltMax(0 - 1) ELSE FromInt(0)
TrueHighest(t) == CASE t = "u8" -> FromInt(255)
                    [] t = "u16" -> FromInt(65535)
                    [] t = "u32" -> Sub(Pow2(32), FromInt(1))
                    [] t = "f32" -> FltMax(1)
\* v as an element of type t when it lies in the range of t
InRangeValue(t, v) == IF t = "f32" THEN RoundFloat(v) ELSE Trunc(v)
\* the saturating cast of section 4.1
SaturatingCast(t, v) ==
    IF Lt(TrueHighest(t), v) THEN TrueHighest(t)
    ELSE IF Lt(v, TrueLowest(t)) THEN TrueLowest(t)
    ELSE InRangeValue(t, v)
\* the value the conversion is to store in pixel i: the source pixel on the
\* plain path, the re-quantized physical value on the rescaling path
ValueToStore(i) ==
    IF visitor = "plain" THEN data.pixels[i]
    ELSE Div(Sub(Add(Mul(data.pixels[i], data.scaling), data.offset), args.offset), args.scaling)

\* C1: a null source is rejected for every target format and every
\* (offset, scaling), and the dispatcher rejects the null target format for
\* every source: the error is "Can not cast a null image" and nothing is returned.
C1_NullRejection ==
    (Called /\ ( (data.kind = "null" /\ args.type \in Kinds)
              \/ (args.entry = "any" /\ args.type = "null") ))
        => (err = NullImageError /\ ret = NoImage)
C1_Witness ==
    /\ Called /\ data.kind = "null" /\ args.type \in Kinds
    /\ ~IdentityMeta(args.offset, args.scaling)
    /\ err = NullImageError

\* C2: saturation law: on both paths every destination pixel is max when the
\* value to store exceeds max, the true lowest value of the type when it is
\* below it, and the value itself (truncated toward zero for an integral
\* destination) when it is in range.
C2_SaturationLaw ==
    CrossKind =>
        \A i \in Pixels(ret) :
            LET v == ValueToStore(i)
                t == pixel_type(args.type)
            IN v.t # "nan" => ret.pixels[i] = SaturatingCast(t, v)

\* C3: a successful image_cast returns a buffer of the source's width and
\* height, and every one of its width*height pixels has been written.
C3_DimensionPreservation ==
    Succeeded =>
        /\ ret.width = data.width
        /\ ret.height = data.height
        /\ Len(ret.pixels) = data.width * data.height
        /\ \A i \in 1..Len(ret.pixels) : ret.pixels[i] # Uninit
C3_Witness ==
    /\ CrossKind /\ visitor = "so"
    /\ ret.width = MaxW /\ ret.height = MaxH
    /\ \A i \in Pixels(ret) : ret.pixels[i] # Uninit

\* C4: when the source's kind is the destination kind the result is an exact
\* copy of the source (dimensions, raw pixels, and the source's offset and
\* scaling) whatever (offset, scaling) is requested.
C4_SameKindCopy ==
    (Called /\ data.kind # "null" /\ args.type = data.kind) =>
        /\ err = NoError
        /\ ret.kind = data.kind
        /\ ret.width = data.width /\ ret.height = data.height
        /\ ret.pixels = data.pixels
        /\ ret.offset = data.offset /\ ret.scaling = data.scaling
C4_Witness ==
    /\ Succeeded /\ args.type = data.kind /\ visitor = "so"
    /\ args.offset # data.offset /\ args.scaling # data.scaling
    /\ ~IdentityMeta(args.offset, args.scaling)
    /\ Len(data.pixels) > 0 /\ ret.pixels = data.pixels

\* C5: on the rescaling path between different kinds every destination pixel
\* is the saturating cast of ((pixel * src_scaling + src_offset) - offset) / scaling.
C5_RescaleComputation ==
    (CrossKind /\ visitor = "so") =>
        \A i \in Pixels(ret) :
            LET raw == Div(Sub(Add(Mul(data.pixels[i], data.scaling), data.offset),
                               args.offset), args.scaling)
            IN raw.t # "nan" => ret.pixels[i] = SaturatingCast(pixel_type(args.type), raw)

\* the double computation of one pixel under (a, b) requested on a source with
\* the same (a, b) incurs no rounding, and the pixel is a number
ExactRoundTrip(p, a, b) ==
    LET m == Mul(p, b)
        s1 == AddExact(m, a)
    IN /\ p.t # "nan" /\ a.t = "fin" /\ b.t = "fin" /\ ~IsZero(b)
       /\ s1 = Add(m, a)
       /\ AddExact(s1, Neg(a)) = Sub(s1, a)
RoundTripCall ==
    /\ Succeeded /\ visitor = "so" /\ data.kind # "null" /\ args.type \in Kinds
    /\ args.offset = data.offset /\ args.scaling = data.scaling
    /\ ~IsZero(data.scaling)
\* the pixels the plain visitor produces for the same source and destination
PlainPixels(ub) == visitor_image_cast(args.type, data, ub).img.pixels

\* C6 as stated: requesting the source's own (offset, scaling), scaling # 0,
\* reproduces the raw pixels exactly: the rescaling visitor's pixels are the
\* plain visitor's (the source's own pixels for a same-kind destination).
C6_RoundTripExact ==
    RoundTripCall =>
        \E ub \in UBChoices(args.type, data, args.offset, args.scaling) : ret.pixels = PlainPixels(ub)

\* C6 amended: the same, for the sources whose pixels are numbers and whose
\* double computations pixel*b, +a, -a incur no rounding; and for such sources
\* with a = 0, b = 1 the rescaling visitor itself produces the plain visitor's
\* pixels, so skipping it is a no-op.
C6_RoundTripWhenExact ==
    (Called /\ data.kind # "null" /\ args.type \in Kinds
       /\ \A i \in Pixels(data) : ExactRoundTrip(data.pixels[i], data.offset, data.scaling))
    => LET ub == <<>>
       IN /\ visitor_image_cast_so(args.type, data, data.offset, data.scaling, ub).img.pixels
               = PlainPixels(ub)
          /\ RoundTripCall => ret.pixels = PlainPixels(ub)
C6_Witness ==
    /\ RoundTripCall /\ args.type # data.kind
    /\ args.offset = FromInt(10) /\ args.scaling = Halves(1)
    /\ Len(data.pixels) > 0
    /\ \A i \in Pixels(data) : ExactRoundTrip(data.pixels[i], data.offset, data.scaling)
    /\ ret.pixels = PlainPixels(<<>>)

\* C7: no call changes the source (kind, size, pixels, offset, scaling), on
\* any path and whether it succeeds or fails, and a returned buffer is storage
\* distinct from the source's.
C7_SourceNeverMutated ==
    [][/\ data' = data
       /\ (err' = NoError => ret'.buf # data'.buf)]_vars
C7_Witness ==
    /\ Succeeded /\ args.type = data.kind /\ Len(data.pixels) > 0
    /\ ret.buf # data.buf /\ ret.pixels = data.pixels

\* C8: for a non-null source and a recognized non-null target, image_cast
\* raises no error whatever (offset, scaling) is requested, scaling 0 included,
\* and returns a complete buffer whose converted pixels all lie in the range
\* of the destination element type; the only errors are the two messages.
C8_ConversionNeverFails ==
    /\ err \in {NoError, NullImageError, UnknownTypeError}
    /\ (Called /\ data.kind # "null" /\ args.type \in Kinds) =>
          /\ err = NoError
          /\ Len(ret.pixels) = data.width * data.height
          /\ args.type # data.kind =>
                \A i \in 1..Len(ret.pixels) :
                    /\ Le(TrueLowest(pixel_type(args.type)), ret.pixels[i])
                    /\ Le(ret.pixels[i], TrueHighest(pixel_type(args.type)))

C10_ResultMetadata ==
    CrossKind => (ret.offset = args.offset /\ ret.scaling = args.scaling)
C10_Witness ==
    /\ CrossKind /\ visitor = "so"
    /\ IdentityMeta(args.offset, args.scaling)
    /\ ~IdentityMeta(data.offset, data.scaling)
    /\ IdentityMeta(ret.offset, ret.scaling)

====
